---- MODULE Spec2Model ----
(***************************************************************************)
(* Deal-processing backend (FastAPI): the deal lifecycle orchestrator      *)
(* DealService over the record store (DealRepository: Firestore client or  *)
(* in-memory fallback), the blob store (StorageService), the local .docs   *)
(* directory of DocxBuilder, MetadataExtractor and MemoGenerator.          *)
(*                                                                         *)
(* Text is a sequence of one-character strings; a longer string inside a   *)
(* sequence is an opaque literal of the source (it holds no "/", ":", ","  *)
(* or whitespace that the code would look at).                             *)
(***************************************************************************)
EXTENDS Integers, Sequences, FiniteSets, TLC

(***************************************************************************)
(* Python string helpers, as the code uses them                            *)
(***************************************************************************)
UpperCase == <<"A","B","C","D","E","F","G","H","I","J","K","L","M",
               "N","O","P","Q","R","S","T","U","V","W","X","Y","Z">>
LowerCase == <<"a","b","c","d","e","f","g","h","i","j","k","l","m",
               "n","o","p","q","r","s","t","u","v","w","x","y","z">>

\* str.lower() on one character
LowerChar(ch) ==
    IF \E i \in 1..Len(UpperCase) : UpperCase[i] = ch
    THEN LowerCase[CHOOSE i \in 1..Len(UpperCase) : UpperCase[i] = ch]
    ELSE ch

\* str.lower()
Lower(s) == [i \in 1..Len(s) |-> LowerChar(s[i])]

\* the characters str.strip() and str.split() treat as whitespace
IsSpace(ch) == ch \in {" ", "\t", "\n", "\r"}

\* s[from..to] as Python's s[from-1:to]
Slice(s, from, to) == IF from > to THEN <<>> ELSE SubSeq(s, from, to)

\* str.strip()
Strip(s) ==
    LET keep == {i \in 1..Len(s) : ~IsSpace(s[i])}
    IN  IF keep = {} THEN <<>>
        ELSE LET lo == CHOOSE i \in keep : \A j \in keep : i <= j
                 hi == CHOOSE i \in keep : \A j \in keep : j <= i
             IN  SubSeq(s, lo, hi)

\* str.startswith(p)
StartsWith(s, p) == Len(s) >= Len(p) /\ SubSeq(s, 1, Len(p)) = p

\* p in s
Contains(s, p) ==
    \E i \in 0..(Len(s) - Len(p)) : SubSeq(s, i + 1, i + Len(p)) = p

\* str.split(sep) for a one-character separator: every piece, empty ones too
RECURSIVE SplitOn(_, _)
SplitOn(s, sep) ==
    LET cut == {i \in 1..Len(s) : s[i] = sep}
    IN  IF cut = {} THEN <<s>>
        ELSE LET k == CHOOSE i \in cut : \A j \in cut : i <= j
             IN  <<Slice(s, 1, k - 1)>> \o SplitOn(Slice(s, k + 1, Len(s)), sep)

\* str.split(sep, 1)[-1]: what follows the first sep, or all of s without one
AfterFirst(s, sep) ==
    LET cut == {i \in 1..Len(s) : s[i] = sep}
    IN  IF cut = {} THEN s
        ELSE LET k == CHOOSE i \in cut : \A j \in cut : i <= j
             IN  Slice(s, k + 1, Len(s))

\* str.split("/")[-1]
LastSegment(s) ==
    LET parts == SplitOn(s, "/") IN parts[Len(parts)]

\* str.splitlines(): lines end at "\n"; no empty last line after a final "\n"
SplitLines(s) ==
    LET parts == SplitOn(s, "\n")
    IN  IF parts[Len(parts)] = <<>> THEN SubSeq(parts, 1, Len(parts) - 1)
        ELSE parts

\* len(str.split()): the number of maximal runs of non-whitespace
WordCount(s) ==
    Cardinality({i \in 1..Len(s) :
                    ~IsSpace(s[i]) /\ (i = 1 \/ IsSpace(s[i - 1]))})

\* [x for x in seq if x] on a sequence of strings
RECURSIVE NonEmpty(_)
NonEmpty(seq) ==
    IF seq = <<>> THEN <<>>
    ELSE (IF Head(seq) = <<>> THEN <<>> ELSE <<Head(seq)>>) \o NonEmpty(Tail(seq))

\* seq[:n]
Take(seq, n) == SubSeq(seq, 1, IF Len(seq) < n THEN Len(seq) ELSE n)

(***************************************************************************)
(* MetadataExtractor                                                       *)
(***************************************************************************)
RECURSIVE FirstShortLine(_)
FirstShortLine(lines) ==
    IF lines = <<>> THEN <<>>
    ELSE LET line == Strip(Head(lines))
         IN  IF line # <<>> /\ WordCount(line) <= 5 THEN line
             ELSE FirstShortLine(Tail(lines))

\* the first non-empty line of fewer than five words
guess_company_name_under_five(text) ==
    LET lines == SplitLines(text)
        short == {i \in 1..Len(lines) :
                     Strip(lines[i]) # <<>> /\ WordCount(Strip(lines[i])) < 5}
    IN  IF short = {} THEN <<>>
        ELSE Strip(lines[CHOOSE i \in short : \A j \in short : i <= j])

guess_company_name(text) == FirstShortLine(SplitLines(text))

RECURSIVE FoundersOf(_)
FoundersOf(lines) ==
    IF lines = <<>> THEN <<>>
    ELSE LET clean == Strip(Head(lines))
             low == Lower(clean)
             segs == SplitOn(AfterFirst(clean, ":"), ",")
             parts == [i \in 1..Len(segs) |-> Strip(segs[i])]
         IN  (IF StartsWith(low, <<"f","o","u","n","d","e","r">>)
                 \/ StartsWith(low, <<"t","e","a","m">>)
              THEN NonEmpty(parts) ELSE <<>>)
             \o FoundersOf(Tail(lines))

guess_founders(text) == Take(FoundersOf(SplitLines(text)), 5)

\* the keyword table, in the order of the dict literal
SectorKeywords ==
    << <<(<<"a","i">>), "Artificial Intelligence">>,
       <<(<<"h","e","a","l","t","h">>), "Healthcare">>,
       <<(<<"f","i","n","t","e","c","h">>), "FinTech">>,
       <<(<<"a","g","r","i">>), "Agriculture">>,
       <<(<<"e","d","t","e","c","h">>), "Education Technology">> >>

\* the keyword that stands first in the text, looked up as written
guess_sector_by_position(text) ==
    LET at == {<<k, i>> \in (1..Len(text)) \X (1..Len(SectorKeywords)) :
                  StartsWith(Slice(text, k, Len(text)), SectorKeywords[i][1])}
    IN  IF at = {} THEN "General"
        ELSE SectorKeywords[(CHOOSE p \in at :
                                \A q \in at : p[1] < q[1]
                                    \/ (p[1] = q[1] /\ p[2] <= q[2]))[2]][2]

guess_sector(text) ==
    LET lowered == Lower(text)
        hits == {i \in 1..Len(SectorKeywords) :
                    Contains(lowered, SectorKeywords[i][1])}
    IN  IF hits = {} THEN "General"
        ELSE SectorKeywords[CHOOSE i \in hits : \A j \in hits : i <= j][2]

\* extract(): (company, founders, sector); the name falls back to "Deal {id}"
MetadataExtract(deal_id, text) ==
    LET company == guess_company_name(text)
    IN  [company_name  |-> IF company # <<>> THEN company
                           ELSE <<"Deal ", deal_id>>,
         founder_names |-> guess_founders(text),
         sector        |-> guess_sector(text)]

default_weightage ==
    [traction |-> 20, team_strength |-> 20, claim_credibility |-> 20,
     financial_health |-> 20, market_opportunity |-> 20]

\* Python's None; a dict is a function from its keys, {} is <<>>
None == [none |-> TRUE]

\* dict.get(key, default)
DictGet(d, key, default) == IF key \in DOMAIN d THEN d[key] ELSE default

\* d[key] = value on a dict
DictSet(d, key, value) ==
    [k \in DOMAIN d \cup {key} |-> IF k = key THEN value ELSE d[k]]

\* bool(x) of what repository.get() returns: None and {} are falsy
Truthy(x) == x # None /\ x # <<>>

(***************************************************************************)
(* MemoGenerator                                                           *)
(***************************************************************************)
SummaryLimit == 300

Max(a, b) == IF a > b THEN a ELSE b

\* a tie going to the higher hundredth
RoundHundredths_half_up(s) == (25 * s + 1) \div 2

\* round(s / 40 * 5, 2) in hundredths: s / 8 is 25*s/2 hundredths, and Python
\* rounds the float to the nearest hundredth, a tie going to the even one
RoundHundredths(s) ==
    LET n == 25 * s
        q == n \div 2
    IN  IF n % 2 = 0 THEN q
        ELSE IF q % 2 = 0 THEN q ELSE q + 1

\* no placeholder profile for an empty list
founder_profiles_no_sentinel(founders) ==
    [i \in 1..Len(founders) |->
        [name |-> founders[i],
         education |-> "Not provided",
         professional_background |-> "Pending founder interview",
         previous_ventures |-> ""]]

founder_profiles(founders) ==
    IF founders = <<>>
    THEN << [name |-> <<"Founder Information Pending">>,
             education |-> "", professional_background |-> "",
             previous_ventures |-> ""] >>
    ELSE [i \in 1..Len(founders) |->
            [name |-> founders[i],
             education |-> "Not provided",
             professional_background |-> "Pending founder interview",
             previous_ventures |-> ""]]

\* the "..." added from 300 characters on
Summary_marked_at_limit(pitch_text) ==
    Take(pitch_text, SummaryLimit)
        \o (IF Len(pitch_text) >= SummaryLimit THEN <<"...">> ELSE <<>>)

\* pitch_text[:300] + ("..." if len(pitch_text) > 300 else "")
Summary(pitch_text) ==
    Take(pitch_text, SummaryLimit)
        \o (IF Len(pitch_text) > SummaryLimit THEN <<"...">> ELSE <<>>)

composite_risk_score(weightage) ==
    RoundHundredths(DictGet(weightage, "team_strength", 20)
                    + DictGet(weightage, "traction", 20))

\* str(n) of an int: its decimal digits, after a "-" when negative
RECURSIVE Digits(_)
Digits(n) ==
    LET digit ==
            <<"0", "1", "2", "3", "4", "5", "6", "7", "8", "9">>[(n % 10) + 1]
    IN  IF n < 10 THEN <<digit>> ELSE Digits(n \div 10) \o <<digit>>

IntStr(n) == IF n < 0 THEN <<"-">> \o Digits(-n) ELSE Digits(n)

\* the traction as it is, without the lower bound of 1
simulated_probability_unbounded(weightage) ==
    IntStr(DictGet(weightage, "traction", 20)) \o <<"%">>

\* f"{max(weightage.get('traction', 20), 1)}%"
simulated_probability(weightage) ==
    IntStr(Max(DictGet(weightage, "traction", 20), 1)) \o <<"%">>

\* generate(): the derived fields of memo_body; its other fields are fixed
\* placeholder text
MemoGenerate(company_name, sector, founders, extracted_text, weightage) ==
    LET pitch_text == DictGet(extracted_text, "pitch_deck", <<>>)
    IN  [company_overview |->
            [name |-> company_name, sector |-> sector,
             founders |-> founder_profiles(founders)],
         market_analysis |->
            [competitor_details |-> << [category |-> sector] >>],
         business_model |->
            [revenue_streams |->
                <<"Derived from pitch materials: ">> \o Summary(pitch_text)],
         claims_analysis |->
            << [simulated_probability |-> simulated_probability(weightage)] >>,
         risk_metrics |->
            [composite_risk_score |-> composite_risk_score(weightage)]]

(***************************************************************************)
(* DocxBuilder: the document written to .docs/{deal_id}_memo.docx          *)
(***************************************************************************)
DocxBuild(deal_id, memo) == [docx |-> [heading |-> deal_id, sections |-> memo]]

(***************************************************************************)
(* Inputs and configuration                                                *)
(***************************************************************************)
\* the values uuid.uuid4().hex[:6] can take (16^6 in the code)
DealIds == {"a1b2c3", "d4e5f6"}

\* the request handlers that can run at the same time
Callers == {"c1", "c2"}

\* UploadFile.filename: none given, or a name, which the client chooses: it
\* can be the memo's name and can hold a "/"
FileNames == {<<>>, <<"deck.pdf">>, <<"memo.docx">>, <<"a", "/", "b.pdf">>}
FileBytes == {"pdf-bytes"}

\* what Document AI returns as document.text
Texts == {<<"A","i","\n","t","e","a","m",":","J","o">>}

\* MemoRegenerationRequest payloads
Payloads ==
    {default_weightage,
     [traction |-> 40, team_strength |-> 40, claim_credibility |-> 20,
      financial_health |-> 20, market_opportunity |-> 20]}

\* FounderChatTranscript messages, FounderInviteRequest fields
Messages == {"m1", "m2"}
Emails == {"founder@example.com"}
\* the expires_in_minutes create_founder_invite() is called with: an int
Minutes == {4, 60}

\* FounderInviteRequest: expires_in_minutes has ge=5, le=1440, which the
\* route's request model checks and create_founder_invite(), taking an int,
\* does not
MinMinutes == 5
MaxMinutes == 1440

\* the runs explored take up this many requests
MaxRequests == 3

bucket_name == "bucket"
invite_base_url == <<"https:", "/", "/", "founder-chat.example.com", "/", "invite">>

\* uuid.uuid4().hex (128 bits): a value no live invite carries
Tokens == 1..(Cardinality(DealIds) + Cardinality(Callers))

\* the dict objects the in-memory store and the handlers can hold
Refs == 1..(Cardinality(DealIds) + Cardinality(Callers))
NoRef == 0
Free == [free |-> TRUE]

VARIABLES
    repository,   \* DealRepository: client, the Firestore documents,
                  \* _memory_store and the dicts it refers to
    bucket,       \* StorageService.bucket: blob path -> content
    docs_dir,     \* DocxBuilder.base_dir: deal id -> {deal_id}_memo.docx
    calls,        \* per caller: the operation in progress, where it is,
                  \* its locals
    response,     \* how the last call of the service ended: operation, deal
                  \* id, HTTP status, and what raised when the status is 500
    requests,     \* how many requests have been taken up so far
    args,         \* the arguments of a call of extract() or generate() on
                  \* its own, outside a request
    result        \* what that call returned

vars == <<repository, bucket, docs_dir, calls, response, requests, args, result>>

(***************************************************************************)
(* StorageService                                                          *)
(***************************************************************************)
\* _blob_path(): f"{deal_id}/{filename}"
blob_path(deal_id, filename) == <<deal_id, "/">> \o filename

\* the gs:// URL upload_bytes() returns
gs_url(deal_id, filename) ==
    <<"gs:", "/", "/", bucket_name, "/", deal_id, "/">> \o filename

\* upload_bytes(): the bucket afterwards
upload_bytes(b, deal_id, filename, data) ==
    LET path == blob_path(deal_id, filename)
    IN  [p \in DOMAIN b \cup {path} |-> IF p = path THEN data ELSE b[p]]

\* download_file(): bucket.get_blob() is None for a missing blob
blob_exists(b, deal_id, filename) == blob_path(deal_id, filename) \in DOMAIN b

\* every blob of the bucket, whatever its prefix
list_blobs_of_all(b, deal_id) == DOMAIN b

\* list_blobs(prefix=f"{deal_id}/"); a deal id is 6 hex digits, so the
\* prefix ends where the id ends
list_blobs(b, deal_id) == {p \in DOMAIN b : StartsWith(p, <<deal_id, "/">>)}

\* blob.delete(); NotFound is swallowed
delete_blob(b, path) == [p \in DOMAIN b \ {path} |-> b[p]]

(***************************************************************************)
(* DealRepository                                                          *)
(***************************************************************************)
\* get(): the dict, or None
RepoGet(repo, deal_id) ==
    IF repo.client THEN repo.documents[deal_id]
    ELSE IF repo.memory_store[deal_id] = NoRef THEN None
    ELSE repo.heap[repo.memory_store[deal_id]]

\* what the caller holds after get(): doc.to_dict() is a copy, the
\* in-memory store hands out the stored dict itself
RepoHandle(repo, deal_id) ==
    IF repo.client THEN [val |-> repo.documents[deal_id]]
    ELSE [ref |-> repo.memory_store[deal_id]]

\* the dict behind a handle
Deref(repo, h) == IF "ref" \in DOMAIN h THEN repo.heap[h.ref] ELSE h.val

\* a write through a handle: a local copy changes alone, a stored dict
\* changes for everyone
WriteThrough(repo, h, value) ==
    IF "ref" \in DOMAIN h
    THEN [repo EXCEPT !.heap[h.ref] = value]
    ELSE repo

HandleAfterWrite(h, value) == IF "ref" \in DOMAIN h THEN h ELSE [val |-> value]

FreeRef(repo) == CHOOSE r \in Refs : repo.heap[r] = Free /\
                    \A q \in Refs : repo.heap[q] = Free => r <= q

\* an upsert that stores nothing
upsert_dropped(repo, deal_id, h) == repo

\* upsert(): document(deal_id).set(data), or _memory_store[deal_id] = data
upsert(repo, deal_id, h) ==
    IF repo.client
    THEN [repo EXCEPT !.documents[deal_id] = Deref(repo, h)]
    ELSE IF "ref" \in DOMAIN h
    THEN [repo EXCEPT !.memory_store[deal_id] = h.ref]
    ELSE LET r == FreeRef(repo)
         IN  [repo EXCEPT !.heap[r] = h.val, !.memory_store[deal_id] = r]

\* delete(): document(deal_id).delete(), or _memory_store.pop(deal_id, None)
delete(repo, deal_id) ==
    IF repo.client
    THEN [repo EXCEPT !.documents[deal_id] = None]
    ELSE [repo EXCEPT !.memory_store[deal_id] = NoRef]

\* _memory_store.setdefault(deal_id, {})
setdefault(repo, deal_id) ==
    IF repo.memory_store[deal_id] # NoRef THEN repo
    ELSE LET r == FreeRef(repo)
         IN  [repo EXCEPT !.heap[r] = <<>>, !.memory_store[deal_id] = r]

\* the document replaced by the one field, as set() would
update_replacing(repo, deal_id, field, value) ==
    [repo EXCEPT !.documents[deal_id] = [k \in {field} |-> value]]

\* document(deal_id).update({field: value}); the caller checks the
\* document exists (update raises NotFound without one)
update(repo, deal_id, field, value) ==
    [repo EXCEPT !.documents[deal_id] = DictSet(@, field, value)]

\* the dicts still referred to, by the store or by a handler's local
LiveRefs(repo, cs) ==
    {repo.memory_store[d] : d \in DealIds}
        \cup {cs[c].loc.deal.ref : c \in
                {x \in Callers : "deal" \in DOMAIN cs[x].loc
                                  /\ "ref" \in DOMAIN cs[x].loc.deal}}

\* garbage collection: a dict nobody refers to is gone
Collect(repo, cs) ==
    [repo EXCEPT !.heap =
        [r \in Refs |-> IF r \in LiveRefs(repo, cs) THEN repo.heap[r] ELSE Free]]

(***************************************************************************)
(* The state after construction (dependencies.py)                          *)
(***************************************************************************)
IdleCall == [op |-> "none", pc |-> "idle", deal_id |-> "", loc |-> <<>>]

\* the service as constructed, before any request
Constructed ==
    /\ repository \in
          {[client |-> cl,
            documents |-> [d \in DealIds |-> None],
            memory_store |-> [d \in DealIds |-> NoRef],
            heap |-> [r \in Refs |-> Free]] : cl \in BOOLEAN}
    /\ bucket = <<>>
    /\ docs_dir = [d \in DealIds |-> None]
    /\ calls = [c \in Callers |-> IdleCall]
    /\ response = [op |-> "none", deal_id |-> "", status |-> 0, raised |-> "none"]
    /\ requests = 0

Init ==
    /\ Constructed
    /\ args = [fn |-> "none"]
    /\ result = None

Idle(c) == calls[c].pc = "idle"

\* a handler thread is free and takes up the next request
Begin(c) ==
    /\ Idle(c)
    /\ requests < MaxRequests
    /\ requests' = requests + 1
    /\ UNCHANGED <<args, result>>

\* the handler of caller c is about to make the call pc of operation op
At(c, op, pc) ==
    /\ calls[c].op = op
    /\ calls[c].pc = pc
    /\ UNCHANGED <<requests, args, result>>

\* the handler goes on to its next call
Goto(c, op, pc, deal_id, loc) ==
    [calls EXCEPT ![c] = [op |-> op, pc |-> pc, deal_id |-> deal_id, loc |-> loc]]

\* the handler returns or raises: its locals are gone
Return(c) == [calls EXCEPT ![c] = IdleCall]

\* 200: the call returned; 404: HTTPException(404); 500: any other exception
Respond(op, deal_id, status, raised) ==
    [op |-> op, deal_id |-> deal_id, status |-> status, raised |-> raised]

\* a missing record answered as a success
NotFound_answered_200(c, op, deal_id) ==
    /\ calls' = Return(c)
    /\ response' = Respond(op, deal_id, 200, "none")
    /\ UNCHANGED <<repository, bucket, docs_dir>>

\* HTTPException(status_code=404)
NotFound(c, op, deal_id) ==
    /\ calls' = Return(c)
    /\ response' = Respond(op, deal_id, 404, "none")
    /\ UNCHANGED <<repository, bucket, docs_dir>>

\* "if not deal: raise HTTPException(status_code=404)" after repository.get()
not_found(repo, deal_id) == ~Truthy(RepoGet(repo, deal_id))

\* the record store after a step, dicts nobody holds collected
Stored(repo, cs) == repository' = Collect(repo, cs)

(***************************************************************************)
(* DealService.process_upload                                              *)
(***************************************************************************)
\* the dict assembled in lines 76-109 (the wall-clock fields created_at,
\* processed_at and generated_at are left out)
deal_document(deal_id, storage_url, extracted_text_raw, meta, weightage, memo_body, docx_url) ==
    [raw_files |-> [pitch_deck_url |-> storage_url],
     public_data |->
        [competitors |-> <<>>, news |-> <<>>, market_stats |-> <<>>,
         founder_profile |-> <<>>,
         startup_analysis |-> DictGet(extracted_text_raw, "analysis", <<>>)],
     metadata |->
        [weightage |-> weightage,
         status |-> "processed",
         deal_id |-> deal_id,
         company_name |-> meta.company_name,
         error |-> None,
         sector |-> meta.sector,
         founder_names |-> meta.founder_names],
     extracted_text |->
        [pitch_deck |->
            [raw_text |-> DictGet(extracted_text_raw, "pitch_deck", <<>>),
             analysis |-> DictGet(extracted_text_raw, "analysis", <<>>)]],
     memo |-> [draft_v1 |-> memo_body, docx_url |-> docx_url],
     founder_chat |-> <<>>,
     founder_invite |-> None]

\* DocumentExtractor.extract_text(): the text Document AI found
extract_text(text) ==
    [pitch_deck |-> text, analysis |-> [entities |-> <<>>, pages |-> <<>>]]

\* lines 40-46: the id, the payload, the raw file into the bucket.
\* process_upload is a coroutine that never awaits after upload.read(), so
\* no other upload runs until it is over
ProcessUpload_StoreFile(c) ==
    /\ Begin(c)
    /\ \A o \in Callers : calls[o].op # "process_upload"
    /\ \E deal_id \in DealIds, name \in FileNames, file_bytes \in FileBytes,
          ok \in BOOLEAN :
          LET filename == IF name # <<>> THEN name ELSE <<"upload_", deal_id>>
          IN  IF ok
              THEN /\ bucket' = upload_bytes(bucket, deal_id, filename,
                                             [raw |-> file_bytes])
                   /\ calls' = Goto(c, "process_upload", "extract", deal_id,
                                    [storage_url |-> gs_url(deal_id, filename)])
                   /\ UNCHANGED <<repository, docs_dir, response>>
              ELSE /\ calls' = Return(c)
                   /\ response' = Respond("process_upload", deal_id, 500,
                                          "upload_bytes")
                   /\ UNCHANGED <<repository, bucket, docs_dir>>

\* lines 48-65: extraction, metadata, default weightage, memo, the .docx
\* written to the local directory
ProcessUpload_ExtractAndBuild(c) ==
    /\ At(c, "process_upload", "extract")
    /\ \E text \in Texts, raised \in {"none", "extract_text", "build"} :
          LET deal_id == calls[c].deal_id
              extracted_text_raw == extract_text(text)
              meta == MetadataExtract(deal_id, text)
              weightage == default_weightage
              memo_body == MemoGenerate(meta.company_name, meta.sector,
                                        meta.founder_names, extracted_text_raw,
                                        weightage)
          IN  IF raised = "none"
              THEN /\ docs_dir' = [docs_dir EXCEPT
                                      ![deal_id] = DocxBuild(deal_id, memo_body)]
                   /\ calls' = Goto(c, "process_upload", "store_memo", deal_id,
                                    [storage_url |-> calls[c].loc.storage_url,
                                     extracted_text_raw |-> extracted_text_raw,
                                     meta |-> meta,
                                     weightage |-> weightage,
                                     memo_body |-> memo_body])
                   /\ UNCHANGED <<repository, bucket, response>>
              ELSE /\ calls' = Return(c)
                   /\ response' = Respond("process_upload", deal_id, 500, raised)
                   /\ UNCHANGED <<repository, bucket, docs_dir>>

\* lines 66-71: docx_path.read_bytes() into {deal_id}/memo.docx
ProcessUpload_StoreMemo(c) ==
    /\ At(c, "process_upload", "store_memo")
    /\ \E ok \in BOOLEAN :
          LET deal_id == calls[c].deal_id
          IN  IF ok
              THEN /\ bucket' = upload_bytes(bucket, deal_id, <<"memo.docx">>,
                                             docs_dir[deal_id])
                   /\ calls' = Goto(c, "process_upload", "upsert", deal_id,
                                    calls[c].loc)
                   /\ UNCHANGED <<repository, docs_dir, response>>
              ELSE /\ calls' = Return(c)
                   /\ response' = Respond("process_upload", deal_id, 500,
                                          "upload_bytes")
                   /\ UNCHANGED <<repository, bucket, docs_dir>>

\* lines 73-112: the record, upserted; routes.upload_deal answers 200
ProcessUpload_Upsert(c) ==
    /\ At(c, "process_upload", "upsert")
    /\ LET deal_id == calls[c].deal_id
           loc == calls[c].loc
           doc == deal_document(deal_id, loc.storage_url, loc.extracted_text_raw,
                                loc.meta, loc.weightage, loc.memo_body,
                                gs_url(deal_id, <<"memo.docx">>))
       IN  /\ calls' = Return(c)
           /\ Stored(upsert(repository, deal_id, [val |-> doc]), calls')
           /\ response' = Respond("process_upload", deal_id, 200, "none")
           /\ UNCHANGED <<bucket, docs_dir>>

(***************************************************************************)
(* DealService.regenerate_memo                                             *)
(***************************************************************************)
\* the memo of lines 119-126, from the record the handler holds
RegeneratedMemo(deal, deal_id, payload) ==
    LET metadata == DictGet(deal, "metadata", <<>>)
        extracted == DictGet(DictGet(deal, "extracted_text", <<>>),
                             "pitch_deck", <<>>)
    IN  MemoGenerate(DictGet(metadata, "company_name", <<deal_id>>),
                     DictGet(metadata, "sector", "General"),
                     DictGet(metadata, "founder_names", <<>>),
                     [pitch_deck |-> DictGet(extracted, "raw_text", <<>>)],
                     payload)

\* lines 115-128: the record read, 404 without one, the memo generated and
\* the .docx written to the local directory
Regenerate_GetAndBuild(c) ==
    /\ Begin(c)
    /\ \E deal_id \in DealIds, payload \in Payloads, ok \in BOOLEAN :
          LET deal == RepoGet(repository, deal_id)
              memo_body == RegeneratedMemo(deal, deal_id, payload)
          IN  IF not_found(repository, deal_id)
              THEN ok /\ NotFound(c, "regenerate_memo", deal_id)
              ELSE IF ok
              THEN /\ docs_dir' = [docs_dir EXCEPT
                                      ![deal_id] = DocxBuild(deal_id, memo_body)]
                   /\ calls' = Goto(c, "regenerate_memo", "store_memo", deal_id,
                                    [deal |-> RepoHandle(repository, deal_id),
                                     payload |-> payload,
                                     memo_body |-> memo_body])
                   /\ Stored(repository, calls')
                   /\ UNCHANGED <<bucket, response>>
              ELSE /\ calls' = Return(c)
                   /\ response' = Respond("regenerate_memo", deal_id, 500, "build")
                   /\ UNCHANGED <<repository, bucket, docs_dir>>

\* lines 129-134: docx_path.read_bytes() into {deal_id}/memo.docx
Regenerate_StoreMemo(c) ==
    /\ At(c, "regenerate_memo", "store_memo")
    /\ \E ok \in BOOLEAN :
          LET deal_id == calls[c].deal_id
          IN  IF ok
              THEN /\ bucket' = upload_bytes(bucket, deal_id, <<"memo.docx">>,
                                             docs_dir[deal_id])
                   /\ calls' = Goto(c, "regenerate_memo", "set_weightage",
                                    deal_id, calls[c].loc)
                   /\ UNCHANGED <<repository, docs_dir, response>>
              ELSE /\ calls' = Return(c)
                   /\ Stored(repository, calls')
                   /\ response' = Respond("regenerate_memo", deal_id, 500,
                                          "upload_bytes")
                   /\ UNCHANGED <<bucket, docs_dir>>

\* the weights added to the ones stored instead of replacing them
with_weightage_added(deal, payload) ==
    [deal EXCEPT !.metadata.weightage =
        [k \in DOMAIN payload |->
            IF k \in DOMAIN @ THEN @[k] + payload[k] ELSE payload[k]]]

\* line 136: deal["metadata"]["weightage"] = payload.dict()
with_weightage(deal, payload) == [deal EXCEPT !.metadata.weightage = payload]

\* lines 137-141: deal["memo"] = {"draft_v1": ..., "docx_url": ..., ...}
with_memo(deal, memo_body, docx_url) ==
    DictSet(deal, "memo", [draft_v1 |-> memo_body, docx_url |-> docx_url])

\* line 136; a KeyError when the dict has no "metadata"
Regenerate_SetWeightage(c) ==
    /\ At(c, "regenerate_memo", "set_weightage")
    /\ LET deal_id == calls[c].deal_id
           loc == calls[c].loc
           deal == Deref(repository, loc.deal)
       IN  IF "metadata" \in DOMAIN deal
           THEN LET changed == with_weightage(deal, loc.payload)
                IN  /\ calls' = Goto(c, "regenerate_memo", "set_memo", deal_id,
                                     [loc EXCEPT
                                        !.deal = HandleAfterWrite(@, changed)])
                    /\ Stored(WriteThrough(repository, loc.deal, changed), calls')
                    /\ UNCHANGED <<bucket, docs_dir, response>>
           ELSE /\ calls' = Return(c)
                /\ Stored(repository, calls')
                /\ response' = Respond("regenerate_memo", deal_id, 500,
                                       "KeyError")
                /\ UNCHANGED <<bucket, docs_dir>>

\* lines 137-141
Regenerate_SetMemo(c) ==
    /\ At(c, "regenerate_memo", "set_memo")
    /\ LET deal_id == calls[c].deal_id
           loc == calls[c].loc
           deal == Deref(repository, loc.deal)
           changed == with_memo(deal, loc.memo_body,
                                gs_url(deal_id, <<"memo.docx">>))
       IN  /\ calls' = Goto(c, "regenerate_memo", "upsert", deal_id,
                            [loc EXCEPT !.deal = HandleAfterWrite(@, changed)])
           /\ Stored(WriteThrough(repository, loc.deal, changed), calls')
           /\ UNCHANGED <<bucket, docs_dir, response>>

\* line 142: repository.upsert(deal_id, deal); the Firestore set() can fail
Regenerate_Upsert(c) ==
    /\ At(c, "regenerate_memo", "upsert")
    /\ \E ok \in BOOLEAN :
          LET deal_id == calls[c].deal_id
          IN  /\ ~ok => repository.client
              /\ calls' = Return(c)
              /\ Stored(IF ok THEN upsert(repository, deal_id, calls[c].loc.deal)
                         ELSE repository, calls')
              /\ response' = Respond("regenerate_memo", deal_id,
                                      IF ok THEN 200 ELSE 500,
                                      IF ok THEN "none" ELSE "upsert")
              /\ UNCHANGED <<bucket, docs_dir>>

(***************************************************************************)
(* DealService.get_deal, list_deals                                        *)
(***************************************************************************)
\* get_deal(): the record, or 404
GetDeal(c) ==
    /\ Begin(c)
    /\ \E deal_id \in DealIds :
          IF not_found(repository, deal_id) THEN NotFound(c, "get_deal", deal_id)
          ELSE /\ response' = Respond("get_deal", deal_id, 200, "none")
               /\ UNCHANGED <<repository, bucket, docs_dir, calls>>

\* get_all(): the lists it can return: the stored dicts, one for each key
\* of the store, in the order the store yields them, which is any order
get_all(repo) ==
    LET keys == {d \in DealIds : RepoGet(repo, d) # None}
        orders == {o \in [1..Cardinality(keys) -> keys] :
                      \A i, j \in DOMAIN o : o[i] = o[j] => i = j}
    IN  {[i \in DOMAIN o |-> RepoGet(repo, o[i])] : o \in orders}

\* list_deals() returns what get_all() returns
ListDeals(c) ==
    /\ Begin(c)
    /\ \E deals \in get_all(repository) :
          response' = [op |-> "list_deals", deal_id |-> "", status |-> 200,
                       raised |-> "none", deals |-> deals]
    /\ UNCHANGED <<repository, bucket, docs_dir, calls>>

(***************************************************************************)
(* DealService.delete_deal                                                 *)
(***************************************************************************)
\* lines 155-156
Delete_Get(c) ==
    /\ Begin(c)
    /\ \E deal_id \in DealIds :
          IF not_found(repository, deal_id) THEN NotFound(c, "delete_deal", deal_id)
          ELSE /\ calls' = Goto(c, "delete_deal", "delete", deal_id, <<>>)
               /\ UNCHANGED <<repository, bucket, docs_dir, response>>

\* line 157: repository.delete(deal_id)
Delete_Record(c) ==
    /\ At(c, "delete_deal", "delete")
    /\ calls' = Goto(c, "delete_deal", "list_blobs", calls[c].deal_id, <<>>)
    /\ Stored(delete(repository, calls[c].deal_id), calls')
    /\ UNCHANGED <<bucket, docs_dir, response>>

\* the answer once delete_folder() has gone through every blob
FolderDeleted(c, b) ==
    /\ bucket' = b
    /\ calls' = Return(c)
    /\ response' = Respond("delete_deal", calls[c].deal_id, 200, "none")
    /\ UNCHANGED <<repository, docs_dir>>

\* an exception of the storage client other than NotFound leaves
\* delete_folder(), delete_deal() and the route
FolderFailed(c) ==
    /\ calls' = Return(c)
    /\ response' = Respond("delete_deal", calls[c].deal_id, 500, "delete_folder")
    /\ UNCHANGED <<repository, bucket, docs_dir>>

\* line 158, delete_folder(): bucket.list_blobs(prefix)
Delete_ListBlobs(c) ==
    /\ At(c, "delete_deal", "list_blobs")
    /\ \E ok \in BOOLEAN :
          LET deal_id == calls[c].deal_id
              todo == list_blobs(bucket, deal_id)
          IN  IF ~ok THEN FolderFailed(c)
              ELSE IF todo = {} THEN FolderDeleted(c, bucket)
              ELSE /\ calls' = Goto(c, "delete_deal", "delete_blob", deal_id,
                                    [todo |-> todo])
                   /\ UNCHANGED <<repository, bucket, docs_dir, response>>

\* delete_folder(): blob.delete() on the next listed blob
Delete_Blob(c) ==
    /\ At(c, "delete_deal", "delete_blob")
    /\ \E path \in calls[c].loc.todo, ok \in BOOLEAN :
          LET rest == calls[c].loc.todo \ {path}
              b == delete_blob(bucket, path)
          IN  IF ~ok THEN FolderFailed(c)
              ELSE IF rest = {} THEN FolderDeleted(c, b)
              ELSE /\ bucket' = b
                   /\ calls' = Goto(c, "delete_deal", "delete_blob",
                                    calls[c].deal_id, [todo |-> rest])
                   /\ UNCHANGED <<repository, docs_dir, response>>

(***************************************************************************)
(* DealService.download_memo, download_pitch_deck                          *)
(***************************************************************************)
\* download_memo() line 161: get_deal(), 404 without a record
DownloadMemo_Get(c) ==
    /\ Begin(c)
    /\ \E deal_id \in DealIds :
          IF not_found(repository, deal_id)
          THEN NotFound(c, "download_memo", deal_id)
          ELSE /\ calls' = Goto(c, "download_memo", "download_file", deal_id,
                                [filename |-> <<"memo.docx">>])
               /\ UNCHANGED <<repository, bucket, docs_dir, response>>

\* download_pitch_deck() lines 166-170: get_deal(), 404 without a record or
\* without a pitch_deck_url; the file name is the URL's last segment
DownloadPitchDeck_Get(c) ==
    /\ Begin(c)
    /\ \E deal_id \in DealIds :
          LET deal == RepoGet(repository, deal_id)
              raw_url == DictGet(DictGet(deal, "raw_files", <<>>),
                                 "pitch_deck_url", None)
          IN  IF not_found(repository, deal_id) \/ ~Truthy(raw_url)
              THEN NotFound(c, "download_pitch_deck", deal_id)
              ELSE /\ calls' = Goto(c, "download_pitch_deck", "download_file",
                                    deal_id, [filename |-> LastSegment(raw_url)])
                   /\ UNCHANGED <<repository, bucket, docs_dir, response>>

\* storage.download_file(): FileNotFoundError for a missing blob, which no
\* handler catches
Download_File(c) ==
    /\ calls[c].op \in {"download_memo", "download_pitch_deck"}
    /\ At(c, calls[c].op, "download_file")
    /\ calls' = Return(c)
    /\ response' =
          IF blob_exists(bucket, calls[c].deal_id, calls[c].loc.filename)
          THEN Respond(calls[c].op, calls[c].deal_id, 200, "none")
          ELSE Respond(calls[c].op, calls[c].deal_id, 500, "FileNotFoundError")
    /\ UNCHANGED <<repository, bucket, docs_dir>>

\* what a successful download of (deal_id, filename) streams
Downloaded(b, deal_id, filename) == b[blob_path(deal_id, filename)]

(***************************************************************************)
(* DealService.create_founder_invite                                       *)
(***************************************************************************)
\* the tokens of the invites stored or about to be stored
TokensInUse ==
    {DictGet(RepoGet(repository, d), "founder_invite", None).token :
        d \in {x \in DealIds :
                 DictGet(RepoGet(repository, x), "founder_invite", None) # None}}
    \cup {calls[c].loc.invite.token :
            c \in {x \in Callers : "invite" \in DOMAIN calls[x].loc}}
    \cup {calls[c].loc.deal.val.founder_invite.token :
            c \in {x \in Callers :
                     /\ "deal" \in DOMAIN calls[x].loc
                     /\ "val" \in DOMAIN calls[x].loc.deal
                     /\ DictGet(calls[x].loc.deal.val, "founder_invite", None)
                            # None}}

\* uuid.uuid4().hex
NewToken == CHOOSE t \in Tokens :
                t \notin TokensInUse /\ \A u \in Tokens \ TokensInUse : t <= u

\* lines 179-188 (expires_at is utcnow() + expires_in_minutes)
NewInvite(token, founder_email, expires_in_minutes) ==
    [token |-> token,
     founder_email |-> founder_email,
     expires_at |-> [utcnow_plus_minutes |-> expires_in_minutes],
     used |-> FALSE,
     invite_url |-> invite_base_url \o <<"/", token>>]

\* set_invite(): the record with the invite in "founder_invite"
with_invite(deal, invite) == DictSet(deal, "founder_invite", invite)

\* lines 177-188
Invite_Get(c) ==
    /\ Begin(c)
    /\ \E deal_id \in DealIds, founder_email \in Emails,
          expires_in_minutes \in Minutes :
          IF not_found(repository, deal_id)
          THEN NotFound(c, "create_founder_invite", deal_id)
          ELSE /\ calls' = Goto(c, "create_founder_invite", "set_invite",
                                deal_id,
                                [invite |-> NewInvite(NewToken, founder_email,
                                                      expires_in_minutes)])
               /\ UNCHANGED <<repository, bucket, docs_dir, response>>

\* set_invite() with a client: document(deal_id).update(...), which raises
\* NotFound for a missing document; without one: setdefault(deal_id, {})
Invite_Set(c) ==
    /\ At(c, "create_founder_invite", "set_invite")
    /\ LET deal_id == calls[c].deal_id
           invite == calls[c].loc.invite
       IN  IF repository.client
           THEN /\ calls' = Return(c)
                /\ IF repository.documents[deal_id] # None
                   THEN /\ Stored(update(repository, deal_id, "founder_invite",
                                         invite), calls')
                        /\ response' = Respond("create_founder_invite", deal_id,
                                               200, "none")
                   ELSE /\ UNCHANGED repository
                        /\ response' = Respond("create_founder_invite", deal_id,
                                               500, "update")
                /\ UNCHANGED <<bucket, docs_dir>>
           ELSE LET repo == setdefault(repository, deal_id)
                IN  /\ calls' = Goto(c, "create_founder_invite", "assign", deal_id,
                                     [invite |-> invite,
                                      deal |-> RepoHandle(repo, deal_id)])
                    /\ Stored(repo, calls')
                    /\ UNCHANGED <<bucket, docs_dir, response>>

\* set_invite() without a client: deal["founder_invite"] = invite
Invite_Assign(c) ==
    /\ At(c, "create_founder_invite", "assign")
    /\ LET loc == calls[c].loc
           deal == Deref(repository, loc.deal)
       IN  /\ calls' = Return(c)
           /\ Stored(WriteThrough(repository, loc.deal,
                                  with_invite(deal, loc.invite)),
                     calls')
           /\ response' = Respond("create_founder_invite", calls[c].deal_id, 200,
                                  "none")
           /\ UNCHANGED <<bucket, docs_dir>>

(***************************************************************************)
(* DealService.record_founder_chat                                         *)
(***************************************************************************)
\* the dict routes.record_founder_chat builds (its timestamp left out)
Transcript(message) == [participant |-> "founder", message |-> message]

\* chat.append(transcript)
chat_append(chat, transcript) == Append(chat, transcript)

\* lines 193-194
Chat_Get(c) ==
    /\ Begin(c)
    /\ \E deal_id \in DealIds, message \in Messages :
          IF not_found(repository, deal_id)
          THEN NotFound(c, "record_founder_chat", deal_id)
          ELSE /\ calls' = Goto(c, "record_founder_chat", "read", deal_id,
                                [transcript |-> Transcript(message)])
               /\ UNCHANGED <<repository, bucket, docs_dir, response>>

\* append_chat_transcript() with a client: doc_ref.get() and the list copied
\* out of the snapshot; without one: setdefault(deal_id, {})
Chat_Read(c) ==
    /\ At(c, "record_founder_chat", "read")
    /\ LET deal_id == calls[c].deal_id
           transcript == calls[c].loc.transcript
       IN  IF repository.client
           THEN LET snapshot == repository.documents[deal_id]
                    chat == IF snapshot # None
                            THEN DictGet(snapshot, "founder_chat", <<>>)
                            ELSE <<>>
                IN  /\ calls' = Goto(c, "record_founder_chat", "write", deal_id,
                                     [transcript |-> transcript, chat |-> chat])
                    /\ UNCHANGED <<repository, bucket, docs_dir, response>>
           ELSE LET repo == setdefault(repository, deal_id)
                IN  /\ calls' = Goto(c, "record_founder_chat", "write", deal_id,
                                     [transcript |-> transcript,
                                      deal |-> RepoHandle(repo, deal_id)])
                    /\ Stored(repo, calls')
                    /\ UNCHANGED <<bucket, docs_dir, response>>

\* append_chat_transcript() with a client: chat.append(transcript) and
\* doc_ref.update({"founder_chat": chat}); without one:
\* deal.setdefault("founder_chat", []).append(transcript)
Chat_Write(c) ==
    /\ At(c, "record_founder_chat", "write")
    /\ LET deal_id == calls[c].deal_id
           loc == calls[c].loc
       IN  /\ calls' = Return(c)
           /\ IF repository.client
              THEN IF repository.documents[deal_id] # None
                   THEN /\ Stored(update(repository, deal_id, "founder_chat",
                                         chat_append(loc.chat, loc.transcript)),
                                  calls')
                        /\ response' = Respond("record_founder_chat", deal_id,
                                               200, "none")
                   ELSE /\ UNCHANGED repository
                        /\ response' = Respond("record_founder_chat", deal_id,
                                               500, "update")
              ELSE LET deal == Deref(repository, loc.deal)
                       chat == DictGet(deal, "founder_chat", <<>>)
                   IN  /\ Stored(WriteThrough(repository, loc.deal,
                                    DictSet(deal, "founder_chat",
                                            chat_append(chat, loc.transcript))),
                                 calls')
                       /\ response' = Respond("record_founder_chat", deal_id,
                                              200, "none")
           /\ UNCHANGED <<bucket, docs_dir>>

(***************************************************************************)
(* The handlers run in the event loop and its thread pool                  *)
(***************************************************************************)
Step(c) ==
    \/ ProcessUpload_StoreFile(c)
    \/ ProcessUpload_ExtractAndBuild(c)
    \/ ProcessUpload_StoreMemo(c)
    \/ ProcessUpload_Upsert(c)
    \/ Regenerate_GetAndBuild(c)
    \/ Regenerate_StoreMemo(c)
    \/ Regenerate_SetWeightage(c)
    \/ Regenerate_SetMemo(c)
    \/ Regenerate_Upsert(c)
    \/ GetDeal(c)
    \/ ListDeals(c)
    \/ Delete_Get(c)
    \/ Delete_Record(c)
    \/ Delete_ListBlobs(c)
    \/ Delete_Blob(c)
    \/ DownloadMemo_Get(c)
    \/ DownloadPitchDeck_Get(c)
    \/ Download_File(c)
    \/ Invite_Get(c)
    \/ Invite_Set(c)
    \/ Invite_Assign(c)
    \/ Chat_Get(c)
    \/ Chat_Read(c)
    \/ Chat_Write(c)

\* requests are handled concurrently
Next == \E c \in Callers : Step(c)

Spec == Init /\ [][Next]_vars

(***************************************************************************)
(* MetadataExtractor.extract and MemoGenerator.generate called on their    *)
(* own: the arguments are drawn from the sets below, the call is made      *)
(* once, and the service is left as constructed                            *)
(***************************************************************************)
\* the lines the pitch texts are made of: empty and blank lines, a name with
\* blanks around it, lines of five and of six words, founder lines with
\* and without a colon, with empty pieces and with six names, and a line
\* with sector keywords in another order and another case than the table's
Lines ==
    {<<>>,
     <<" ", " ">>,
     <<" ", "A", "i", " ">>,
     <<"a", " ", "b", " ", "c", " ", "d", " ", "e">>,
     <<"a", " ", "b", " ", "c", " ", "d", " ", "e", " ", "f">>,
     <<"F", "o", "u", "n", "d", "e", "r", "s", ":", " ", "J", "o", ",",
       " ", ",", "A", "l">>,
     <<"t", "e", "a", "m">>,
     <<"T", "e", "a", "m", ":", "u", ",", "v", ",", "w", ",", "x", ",",
       "y", ",", "z">>,
     <<"a", "g", "r", "i", " ", "H", "E", "A", "L", "T", "H">>}

\* a pitch text has at most this many lines
MaxLines == 3

\* "\n".join(lines)
RECURSIVE Join(_)
Join(lines) ==
    IF lines = <<>> THEN <<>>
    ELSE IF Len(lines) = 1 THEN lines[1]
    ELSE lines[1] \o <<"\n">> \o Join(Tail(lines))

PitchDecks ==
    {Join(lines) : lines \in UNION {[1..n -> Lines] : n \in 0..MaxLines}}

\* pitch texts around the length at which the summary is cut
PitchLengths ==
    {0, 1, SummaryLimit - 1, SummaryLimit, SummaryLimit + 1, SummaryLimit + 2}

LongTexts == {[i \in 1..n |-> "x"] : n \in PitchLengths}

FounderLists == {<<>>, <<(<<"J", "o">>)>>, <<(<<"J", "o">>), <<"A", "l">>>>}

\* DealWeightage values: any int is accepted for a weight
Weights == {-3, 0, 20, 21, 23, 40}

Weightages ==
    {[default_weightage EXCEPT !.team_strength = t, !.traction = r] :
        t \in Weights, r \in Weights}

ExtractArgs ==
    {[fn |-> "extract", deal_id |-> d, extracted_text |-> [pitch_deck |-> t]] :
        d \in DealIds, t \in PitchDecks}

GenerateArgs ==
    {[fn |-> "generate", company_name |-> <<"A", "i">>,
      sector |-> "Artificial Intelligence", founders |-> f,
      extracted_text |-> [pitch_deck |-> t], weightage |-> w] :
        f \in FounderLists, t \in LongTexts, w \in Weightages}

PureInit ==
    /\ Constructed
    /\ args \in ExtractArgs \cup GenerateArgs
    /\ result = None

\* metadata_extractor.extract(deal_id=..., extracted_text=...)
Extract ==
    /\ args.fn = "extract"
    /\ result = None
    /\ result' = MetadataExtract(args.deal_id, args.extracted_text.pitch_deck)
    /\ UNCHANGED <<repository, bucket, docs_dir, calls, response, requests, args>>

\* memo_generator.generate(company_name=..., ..., weightage=...)
Generate ==
    /\ args.fn = "generate"
    /\ result = None
    /\ result' = MemoGenerate(args.company_name, args.sector, args.founders,
                              args.extracted_text, args.weightage)
    /\ UNCHANGED <<repository, bucket, docs_dir, calls, response, requests, args>>

PureNext == Extract \/ Generate

PureSpec == PureInit /\ [][PureNext]_vars

(***************************************************************************)
(* The service without a Firestore client (the in-memory fallback) and     *)
(* with one deal stored: the state an upload without a file name, taken    *)
(* up as the first request, leaves behind. The requests counted from       *)
(* there on are the ones that follow it                                    *)
(***************************************************************************)
\* the record lines 48-111 of process_upload assemble for the upload
UploadedDocument(deal_id, text) ==
    LET extracted_text_raw == extract_text(text)
        meta == MetadataExtract(deal_id, text)
        memo_body == MemoGenerate(meta.company_name, meta.sector,
                                  meta.founder_names, extracted_text_raw,
                                  default_weightage)
    IN  deal_document(deal_id, gs_url(deal_id, <<"upload_", deal_id>>),
                      extracted_text_raw, meta, default_weightage, memo_body,
                      gs_url(deal_id, <<"memo.docx">>))

AfterUpload ==
    \E cl \in {FALSE}, deal_id \in {"a1b2c3"}, text \in Texts,
       file_bytes \in FileBytes :
        LET doc == UploadedDocument(deal_id, text)
            docx == DocxBuild(deal_id, doc.memo.draft_v1)
            empty == [client |-> cl,
                      documents |-> [d \in DealIds |-> None],
                      memory_store |-> [d \in DealIds |-> NoRef],
                      heap |-> [r \in Refs |-> Free]]
        IN  /\ repository = upsert(empty, deal_id, [val |-> doc])
            /\ bucket = upload_bytes(upload_bytes(<<>>, deal_id,
                                                  <<"upload_", deal_id>>,
                                                  [raw |-> file_bytes]),
                                     deal_id, <<"memo.docx">>, docx)
            /\ docs_dir = [d \in DealIds |-> IF d = deal_id THEN docx ELSE None]
            /\ calls = [c \in Callers |-> IdleCall]
            /\ response = Respond("process_upload", deal_id, 200, "none")

StoredInit ==
    /\ AfterUpload
    /\ requests = 0
    /\ args = [fn |-> "none"]
    /\ result = None

StoredSpec == StoredInit /\ [][Next]_vars

(***************************************************************************)
(* What the operations promise                                             *)
(***************************************************************************)
\* the stored record of a deal id, None without one
Record(d) == RepoGet(repository, d)

StoredIds == {d \in DealIds : Record(d) # None}

Chat(d) == DictGet(Record(d), "founder_chat", <<>>)

Invite(d) == DictGet(Record(d), "founder_invite", None)

IsPrefix(s, t) == Len(s) <= Len(t) /\ SubSeq(t, 1, Len(s)) = s

Range(s) == {s[i] : i \in DOMAIN s}

\* this step takes up a request op on deal id d
Taken(op, d) ==
    /\ requests' # requests
    /\ \/ \E c \in Callers : Idle(c) /\ calls'[c].op = op /\ calls'[c].deal_id = d
       \/ calls' = calls /\ response'.op = op /\ response'.deal_id = d

\* this step is one of a call of op on deal id d that is in progress
Continued(op, d) ==
    \E c \in Callers :
        calls[c].op = op /\ calls[c].deal_id = d /\ calls'[c] # calls[c]

\* this step ends a call of op on deal id d with the given status
Answered(op, d, status) ==
    /\ response' = Respond(op, d, status, response'.raised)
    /\ \/ calls' = calls /\ requests' # requests
       \/ \E c \in Callers :
             calls[c].op = op /\ calls[c].deal_id = d /\ calls'[c] = IdleCall

\* this step is the final upsert of an upload of deal id d
UploadUpsert(d) ==
    \E c \in Callers :
        /\ calls[c].op = "process_upload" /\ calls[c].pc = "upsert"
        /\ calls[c].deal_id = d /\ calls'[c] # calls[c]

StatusOf(rec) == DictGet(DictGet(rec, "metadata", <<>>), "status", "processed")

\* C1: when process_upload returns, the record of the returned id is there
\* for get_deal, its status is "processed" and its memo.draft_v1 is not
\* empty; and no stored record ever has status "pending" or "failed".
C1_UploadStoresProcessedDeal ==
    [][\A d \in DealIds :
          /\ StatusOf(Record(d)') \notin {"pending", "failed"}
          /\ Answered("process_upload", d, 200) =>
                /\ ~not_found(repository', d)
                /\ Record(d)'.metadata.status = "processed"
                /\ Truthy(Record(d)'.memo.draft_v1)]_vars

C1_Witness ==
    /\ response.op = "process_upload" /\ response.status = 200
    /\ ~not_found(repository, response.deal_id)
    /\ Record(response.deal_id).metadata.status = "processed"

\* C2: the id an upload generates is the id of no stored record, so the
\* upload replaces no record, and the stored records are one more after
\* every successful upload.
C2_UploadIdIsFresh ==
    [][\A d \in DealIds :
          /\ Taken("process_upload", d) => Record(d) = None
          /\ Answered("process_upload", d, 200) =>
                /\ Record(d) = None
                /\ Cardinality(StoredIds') = Cardinality(StoredIds) + 1]_vars

\* C3: record_founder_chat calls on one stored deal lose no message,
\* however they interleave: when a call returns, its message is in the
\* stored founder_chat and so is every message that was there before.
C3_ConcurrentChatsAllKept ==
    [][\A d \in DealIds :
          Answered("record_founder_chat", d, 200)
              /\ Record(d) # None /\ Record(d)' # None =>
          \E c \in Callers :
             /\ calls[c].op = "record_founder_chat" /\ calls[c].deal_id = d
             /\ calls'[c] = IdleCall
             /\ calls[c].loc.transcript \in Range(Chat(d)')
             /\ Range(Chat(d)) \subseteq Range(Chat(d)')]_vars

\* the record without the two fields regenerate_memo is to change
Frame(rec) ==
    [k \in DOMAIN rec \ {"memo"} |->
        IF k = "metadata"
        THEN [j \in DOMAIN rec[k] \ {"weightage"} |-> rec[k][j]]
        ELSE rec[k]]

\* C4: no step of regenerate_memo on a stored deal changes anything of the
\* deal's record but metadata.weightage and memo: raw_files, public_data,
\* extracted_text, founder_chat, founder_invite and the rest of metadata
\* are after the step what they were before it.
C4_RegenerateChangesOnlyWeightageAndMemo ==
    [][\A d \in DealIds :
          (Taken("regenerate_memo", d) \/ Continued("regenerate_memo", d))
              /\ Record(d) # None /\ Record(d)' # None =>
          Frame(Record(d)') = Frame(Record(d))]_vars

ByIdOps ==
    {"get_deal", "regenerate_memo", "delete_deal", "download_memo",
     "download_pitch_deck", "create_founder_invite", "record_founder_chat"}

\* C5: each of the by-id operations, taken up for an id without a record,
\* is answered 404 at once and leaves records, blobs and files as they were.
C5_MissingDealIsNotFound ==
    [][\A op \in ByIdOps, d \in DealIds :
          Taken(op, d) /\ Record(d) = None =>
              /\ response' = Respond(op, d, 404, "none")
              /\ calls' = calls
              /\ UNCHANGED <<repository, bucket, docs_dir>>]_vars

C5_Witness ==
    /\ response.op \in ByIdOps \ {"get_deal"} /\ response.status = 404
    /\ Record(response.deal_id) = None
    /\ StoredIds # {}

\* C6: once delete_deal(id) has succeeded, and for as long as it is the
\* call answered last and no upload of the same id is under way, the id has
\* no record to be found: get_deal, download_pitch_deck and a second
\* delete_deal would be answered 404.
C6_DeletedDealStaysNotFound ==
    \A d \in DealIds :
        response = Respond("delete_deal", d, 200, "none")
            /\ (\A c \in Callers :
                   ~(calls[c].op = "process_upload" /\ calls[c].deal_id = d)) =>
        not_found(repository, d)

\* C7: every step of process_upload but its final upsert leaves the record
\* store as it was, and an upload that ends on such a step ends with an
\* error and with no record for the deal id it generated.
C7_FailedUploadStoresNoRecord ==
    [][\A d \in DealIds :
          (Taken("process_upload", d) \/ Continued("process_upload", d))
              /\ ~UploadUpsert(d) =>
          /\ repository' = repository
          /\ (\A c \in Callers : calls'[c].op # "process_upload") =>
                /\ Answered("process_upload", d, 500)
                /\ response'.raised # "none"
                /\ Record(d)' = None]_vars

\* C8: a delete_deal whose record delete went through and whose
\* delete_folder failed is answered as a success.
C8_DeleteAnsweredDespiteBlobFailure ==
    response.op = "delete_deal" /\ response.raised = "delete_folder" =>
        response.status = 200

C9Ops ==
    {"record_founder_chat", "regenerate_memo", "create_founder_invite",
     "get_deal", "list_deals", "download_memo", "download_pitch_deck"}

\* C9: over the steps of chat, regeneration, invite and read operations the
\* founder_chat of a stored deal only grows at its end: the chat before a
\* step is a prefix of the chat after it, a record_founder_chat that returns
\* has added its one entry at the end, and no other step changes the chat.
C9_FounderChatAppendOnly ==
    [][\A d \in DealIds :
          Record(d) # None /\ Record(d)' # None
              /\ (\E op \in C9Ops, e \in DealIds \cup {""} :
                     Taken(op, e) \/ Continued(op, e)) =>
          /\ IsPrefix(Chat(d), Chat(d)')
          /\ IF Answered("record_founder_chat", d, 200)
             THEN \E c \in Callers :
                     /\ calls[c].op = "record_founder_chat"
                     /\ calls[c].deal_id = d
                     /\ calls'[c] = IdleCall
                     /\ Chat(d)' = Append(Chat(d), calls[c].loc.transcript)
             ELSE Chat(d)' = Chat(d)]_vars

\* C10: the founder_invite of a stored deal is the invite the last
\* successful create_founder_invite returned: when such a call returns, the
\* stored invite is the one it returns, with used = false and with another
\* token than the invite stored before, and the stored invite changes at no
\* other step.
C10_LastInviteReplacesEarlier ==
    [][\A d \in DealIds :
          Record(d) # None /\ Record(d)' # None /\ ~UploadUpsert(d) =>
          IF Answered("create_founder_invite", d, 200)
          THEN \E c \in Callers :
                  /\ calls[c].op = "create_founder_invite"
                  /\ calls[c].deal_id = d
                  /\ calls'[c] = IdleCall
                  /\ Invite(d)' = calls[c].loc.invite
                  /\ Invite(d)'.used = FALSE
                  /\ Invite(d) # None => Invite(d)'.token # Invite(d).token
          ELSE Invite(d)' = Invite(d)]_vars

\* the stored deal d carries what regenerate_memo stores for payload: the
\* weightage, and the memo generated from the record with those weights
Regenerated(d, payload) ==
    /\ Record(d) # None
    /\ "metadata" \in DOMAIN Record(d)
    /\ "weightage" \in DOMAIN Record(d).metadata
    /\ Record(d).metadata.weightage = payload
    /\ "memo" \in DOMAIN Record(d)
    /\ Record(d).memo.draft_v1 = RegeneratedMemo(Record(d), d, payload)

\* C11: regenerate_memo is idempotent: on a stored deal that already carries
\* the weightage and the memo of a regeneration with some weights, no step of
\* a regenerate_memo call with the same weights changes memo.draft_v1 or
\* metadata.weightage of the stored deal.
C11_RegenerateIdempotent ==
    [][\A d \in DealIds, c \in Callers :
          /\ calls[c].op = "regenerate_memo"
          /\ calls[c].deal_id = d
          /\ calls'[c] # calls[c]
          /\ Regenerated(d, calls[c].loc.payload)
          /\ Record(d)' # None
          => /\ Record(d)'.memo.draft_v1 = Record(d).memo.draft_v1
             /\ Record(d)'.metadata.weightage = Record(d).metadata.weightage]_vars

\* a second regeneration with weights other than the defaults is about to
\* write a Firestore document that the first one has already written
C11_Witness ==
    \E d \in DealIds, c \in Callers :
        /\ repository.client
        /\ calls[c].op = "regenerate_memo"
        /\ calls[c].pc = "upsert"
        /\ calls[c].deal_id = d
        /\ calls[c].loc.payload # default_weightage
        /\ Regenerated(d, calls[c].loc.payload)

\* C12: every stored record carries its own key: metadata.deal_id of the
\* record stored under an id is that id, in every reachable state.
C12_StoredRecordCarriesItsKey ==
    \A d \in DealIds :
        Record(d) # None =>
            /\ "metadata" \in DOMAIN Record(d)
            /\ Record(d).metadata.deal_id = d

\* C13: for every stored record the blob its raw_files.pitch_deck_url names
\* and the blob {deal_id}/memo.docx are both in the bucket, in every
\* reachable state.
C13_StoredRecordHasItsBlobs ==
    \A d \in DealIds :
        Record(d) # None /\ "raw_files" \in DOMAIN Record(d) =>
            /\ blob_exists(bucket, d,
                           LastSegment(Record(d).raw_files.pitch_deck_url))
            /\ blob_exists(bucket, d, <<"memo.docx">>)

\* generate() has been called with these arguments and has returned
Generated == args.fn = "generate" /\ result # None

\* team_strength + traction of the weightage generate() was called with
WeightSum == args.weightage.team_strength + args.weightage.traction

\* C14, as the code has it: the composite risk score is
\* (team_strength + traction) / 40 * 5 rounded to the nearest hundredth, a
\* tie going to the even hundredth: the score h, in hundredths, is at most
\* half a hundredth away from 25 * sum / 2, and is even when exactly half a
\* hundredth away; weights 20 and 20 give 5.0, weights 40 and 40 give 10.0.
C14_CompositeRiskScoreRoundsHalfEven ==
    Generated =>
        LET h == result.risk_metrics.composite_risk_score
            n == 25 * WeightSum
        IN  /\ 2 * h - n \in {-1, 0, 1}
            /\ 2 * h # n => h % 2 = 0
            /\ WeightSum = 40 => h = 500
            /\ WeightSum = 80 => h = 1000

\* weights 21 and 20: 5.125, a tie between 5.12 and 5.13
C14_Witness ==
    /\ Generated
    /\ args.weightage.team_strength = 21
    /\ args.weightage.traction = 20
    /\ result.risk_metrics.composite_risk_score = 512

\* C14, as the claim has it: the composite risk score is
\* (team_strength + traction) / 40 * 5 rounded half-up to two decimals, a tie
\* going to the higher hundredth.
C14_CompositeRiskScoreRoundsHalfUp ==
    Generated =>
        result.risk_metrics.composite_risk_score = (25 * WeightSum + 1) \div 2

\* C15: no stored invite expires outside 5 to 1440 minutes after its
\* creation: create_founder_invite rejects or clamps an expires_in_minutes
\* outside that range.
C15_StoredInviteExpiryInRange ==
    \A d \in DealIds :
        Record(d) # None /\ Invite(d) # None =>
            /\ Invite(d).expires_at.utcnow_plus_minutes >= MinMinutes
            /\ Invite(d).expires_at.utcnow_plus_minutes <= MaxMinutes

\* extract() has been called with these arguments and has returned
Extracted == args.fn = "extract" /\ result # None

\* the pitch text extract() was called with, and its pieces between "\n"
PitchDeck == args.extracted_text.pitch_deck
PitchLines == SplitOn(PitchDeck, "\n")

\* line i, trimmed, is non-empty and has at most five words
NameLine(i) ==
    /\ Strip(PitchLines[i]) # <<>>
    /\ WordCount(Strip(PitchLines[i])) <= 5

\* C16: the company name extract() returns is the first line of the text
\* that, trimmed, is non-empty and has at most five whitespace-separated
\* words, trimmed and otherwise as written; without such a line, the empty
\* text included, it is "Deal {deal_id}".
C16_CompanyNameIsFirstShortLine ==
    Extracted =>
        LET named == {i \in 1..Len(PitchLines) : NameLine(i)}
        IN  IF named = {}
            THEN result.company_name = <<"Deal ", args.deal_id>>
            ELSE \E i \in named :
                    /\ \A j \in named : i <= j
                    /\ result.company_name = Strip(PitchLines[i])

\* a blank line and a line of six words are passed over, a line of five
\* words is taken
C16_Witness ==
    /\ Extracted
    /\ PitchLines =
          << <<" ", " ">>,
             <<"a", " ", "b", " ", "c", " ", "d", " ", "e", " ", "f">>,
             <<"a", " ", "b", " ", "c", " ", "d", " ", "e">> >>
    /\ result.company_name = <<"a", " ", "b", " ", "c", " ", "d", " ", "e">>

\* the line, trimmed, starts with "founder" or "team" in any case
FounderLine(line) ==
    \/ StartsWith(Lower(Strip(line)), <<"f", "o", "u", "n", "d", "e", "r">>)
    \/ StartsWith(Lower(Strip(line)), <<"t", "e", "a", "m">>)

\* the part of the line after its first colon; a line without a colon has
\* no such part
AfterColon(line) ==
    IF \E i \in 1..Len(line) : line[i] = ":" THEN AfterFirst(line, ":")
    ELSE <<>>

\* the names the claim takes from the lines, in order
RECURSIVE ClaimedFounders(_)
ClaimedFounders(lines) ==
    IF lines = <<>> THEN <<>>
    ELSE LET segs == SplitOn(AfterColon(Strip(Head(lines))), ",")
         IN  (IF FounderLine(Head(lines))
              THEN NonEmpty([i \in 1..Len(segs) |-> Strip(segs[i])])
              ELSE <<>>)
             \o ClaimedFounders(Tail(lines))

\* C17: the founders extract() returns come only from the lines that,
\* trimmed, start with "founder" or "team" in any case: of each such line
\* the part after its first colon is split on commas, the pieces are trimmed,
\* the empty ones dropped, the rest collected in order, and the first five
\* of them are returned.
C17_FoundersFromPartAfterColon ==
    Extracted => result.founder_names = Take(ClaimedFounders(PitchLines), 5)

\* keyword i of the table occurs in the text, in any case
KeywordFound(i) == Contains(Lower(PitchDeck), SectorKeywords[i][1])

\* C18: the sector extract() returns is the label of the first keyword, in
\* the order ai, health, fintech, agri, edtech, that occurs in the text in
\* any case, wherever in the text the keywords stand, and "General" when
\* none of them occurs.
C18_SectorIsFirstKeywordInTableOrder ==
    Extracted =>
        /\ SectorKeywords[1] = <<(<<"a", "i">>), "Artificial Intelligence">>
        /\ SectorKeywords[2] = <<(<<"h", "e", "a", "l", "t", "h">>), "Healthcare">>
        /\ SectorKeywords[3] = <<(<<"f", "i", "n", "t", "e", "c", "h">>), "FinTech">>
        /\ SectorKeywords[4] = <<(<<"a", "g", "r", "i">>), "Agriculture">>
        /\ SectorKeywords[5] =
              <<(<<"e", "d", "t", "e", "c", "h">>), "Education Technology">>
        /\ \A i \in 1..5 :
              KeywordFound(i) /\ (\A j \in 1..(i - 1) : ~KeywordFound(j))
                  => result.sector = SectorKeywords[i][2]
        /\ (\A i \in 1..5 : ~KeywordFound(i)) => result.sector = "General"

\* "agri" stands before "HEALTH" in the text and after it in the table
C18_Witness ==
    /\ Extracted
    /\ PitchDeck = <<"a", "g", "r", "i", " ", "H", "E", "A", "L", "T", "H">>
    /\ result.sector = "Healthcare"

\* C19: the founder profiles of the memo are one per founder name, in the
\* order of the names and each with its name; for an empty list of founders
\* there is exactly one profile, named "Founder Information Pending".
C19_FounderProfilesOneToOne ==
    Generated =>
        LET profiles == result.company_overview.founders
        IN  IF args.founders = <<>>
            THEN /\ Len(profiles) = 1
                 /\ profiles[1].name = <<"Founder Information Pending">>
            ELSE /\ Len(profiles) = Len(args.founders)
                 /\ \A i \in 1..Len(profiles) :
                       profiles[i].name = args.founders[i]

\* no founder was found, and the memo has the one placeholder profile
C19_Witness ==
    /\ Generated
    /\ args.founders = <<>>
    /\ Len(result.company_overview.founders) = 1

\* C20: the revenue_streams summary of the memo is the first 300 characters
\* of the pitch text, followed by "..." exactly when the pitch text is
\* longer than 300 characters.
C20_SummaryCutAtLimit ==
    Generated =>
        LET pitch_text == args.extracted_text.pitch_deck
            cut == [i \in 1..(IF Len(pitch_text) < 300 THEN Len(pitch_text)
                              ELSE 300) |-> pitch_text[i]]
        IN  result.business_model.revenue_streams =
                <<"Derived from pitch materials: ">> \o cut
                    \o (IF Len(pitch_text) > 300 THEN <<"...">> ELSE <<>>)

\* a pitch text of 301 characters: 300 of them kept, then the "..."
C20_Witness ==
    /\ Generated
    /\ Len(args.extracted_text.pitch_deck) = 301
    /\ Len(result.business_model.revenue_streams) = 302
    /\ result.business_model.revenue_streams[302] = "..."

\* C21: the simulated_probability of the claims-analysis entry is the
\* decimal string of max(traction, 1) followed by "%"; a traction of 0 or
\* below gives "1%".
C21_SimulatedProbabilityAtLeastOne ==
    Generated =>
        LET traction == args.weightage.traction
            shown == result.claims_analysis[1].simulated_probability
        IN  /\ traction >= 1 => shown = IntStr(traction) \o <<"%">>
            /\ traction <= 0 => shown = <<"1", "%">>
            /\ traction = 20 => shown = <<"2", "0", "%">>

\* a negative traction, shown as "1%"
C21_Witness ==
    /\ Generated
    /\ args.weightage.traction = -3
    /\ result.claims_analysis[1].simulated_probability = <<"1", "%">>

\* no call on deal d is in progress
Quiet(d) == \A c \in Callers : calls[c].deal_id # d

\* C22: whenever no operation on a deal is in progress, the blob
\* {deal_id}/memo.docx is the rendering of the memo.draft_v1 stored in the
\* deal's record.
C22_MemoBlobRendersStoredMemo ==
    \A d \in DealIds :
        /\ Quiet(d)
        /\ Record(d) # None
        /\ "memo" \in DOMAIN Record(d)
        /\ blob_exists(bucket, d, <<"memo.docx">>)
        => Downloaded(bucket, d, <<"memo.docx">>)
              = DocxBuild(d, Record(d).memo.draft_v1)

\* C23: regenerate_memo and a record_founder_chat or create_founder_invite
\* on the same stored deal lose nothing of each other: when regenerate_memo
\* returns, every chat entry and the invite that were stored just before are
\* still stored, and when the chat or invite call returns, the stored memo
\* and metadata are the ones stored just before.
C23_RegenerateAndChatOrInviteBothKept ==
    [][\A d \in DealIds :
          Record(d) # None /\ Record(d)' # None =>
          /\ Answered("regenerate_memo", d, 200) =>
                /\ Range(Chat(d)) \subseteq Range(Chat(d)')
                /\ Invite(d)' = Invite(d)
          /\ Answered("record_founder_chat", d, 200)
                \/ Answered("create_founder_invite", d, 200) =>
                /\ DictGet(Record(d)', "memo", None)
                      = DictGet(Record(d), "memo", None)
                /\ DictGet(Record(d)', "metadata", None)
                      = DictGet(Record(d), "metadata", None)]_vars

\* C24: a deal id that has no record gets one only by an upload: after
\* delete_deal has removed the record, no write of a regenerate_memo,
\* record_founder_chat or create_founder_invite makes a record, whole or
\* partial, exist under the id again.
C24_OnlyUploadCreatesRecord ==
    [][\A d \in DealIds :
          Record(d) = None /\ Record(d)' # None => UploadUpsert(d)]_vars

\* C25: delete_deal removes the record before any blob: a step of a
\* delete_deal call that removes a blob of the deal finds the record absent
\* and leaves it absent, so wherever the call stops, no record is left with
\* its blob folder partly or fully removed.
C25_DeleteRemovesRecordBeforeBlobs ==
    [][\A d \in DealIds, c \in Callers :
          /\ calls[c].op = "delete_deal"
          /\ calls[c].deal_id = d
          /\ calls'[c] # calls[c]
          /\ bucket' # bucket
          => Record(d) = None /\ Record(d)' = None]_vars

\* the pitch_deck_url of the stored deal d
PitchDeckUrl(d) == Record(d).raw_files.pitch_deck_url

\* C26: for every stored deal the file name download_pitch_deck derives
\* from the last segment of pitch_deck_url names the blob the upload was
\* stored under, and that blob holds the bytes that were uploaded, never the
\* rendered memo, whatever file name was submitted.
C26_PitchDeckDownloadIsTheUpload ==
    \A d \in DealIds :
        Record(d) # None /\ "raw_files" \in DOMAIN Record(d) =>
            /\ gs_url(d, LastSegment(PitchDeckUrl(d))) = PitchDeckUrl(d)
            /\ blob_exists(bucket, d, LastSegment(PitchDeckUrl(d))) =>
                  \E file_bytes \in FileBytes :
                      Downloaded(bucket, d, LastSegment(PitchDeckUrl(d)))
                          = [raw |-> file_bytes]

\* C27: a download_memo or download_pitch_deck that does not succeed ends
\* as not found (404), also when the record exists and the blob is missing
\* from the bucket.
C27_MissingBlobIsNotFound ==
    response.op \in {"download_memo", "download_pitch_deck"}
        /\ response.status # 200 => response.status = 404

\* C28: in every record get_deal can return, the memo and the weightage
\* belong together: the composite risk score and the simulated probability
\* of memo.draft_v1 are the ones derived from the stored metadata.weightage,
\* and the memo's company name and sector are the metadata's.
C28_MemoMatchesStoredWeightage ==
    \A d \in DealIds :
        /\ Truthy(Record(d))
        /\ "metadata" \in DOMAIN Record(d)
        /\ "memo" \in DOMAIN Record(d)
        => LET metadata == Record(d).metadata
               draft == Record(d).memo.draft_v1
           IN  /\ draft.risk_metrics.composite_risk_score
                     = composite_risk_score(metadata.weightage)
               /\ draft.claims_analysis[1].simulated_probability
                     = simulated_probability(metadata.weightage)
               /\ draft.company_overview.name = metadata.company_name
               /\ draft.company_overview.sector = metadata.sector

\* the record without one of its fields
Without(rec, field) == [k \in DOMAIN rec \ {field} |-> rec[k]]

\* the one field of the record the operation is to change
FieldOf(op) ==
    IF op = "record_founder_chat" THEN "founder_chat" ELSE "founder_invite"

\* C29: on an existing deal a step of record_founder_chat changes nothing
\* of the record but founder_chat, a step of create_founder_invite nothing
\* but founder_invite, and neither changes a blob.
C29_ChatAndInviteChangeOnlyTheirField ==
    [][\A d \in DealIds, c \in Callers :
          /\ calls[c].op \in {"record_founder_chat", "create_founder_invite"}
          /\ calls[c].deal_id = d
          /\ calls'[c] # calls[c]
          /\ Record(d) # None
          /\ Record(d)' # None
          => /\ Without(Record(d)', FieldOf(calls[c].op))
                   = Without(Record(d), FieldOf(calls[c].op))
             /\ bucket' = bucket]_vars

\* a chat message and an invite have been stored in a deal that has its
\* memo and metadata
C29_Witness ==
    \E d \in DealIds :
        /\ response = Respond("create_founder_invite", d, 200, "none")
        /\ Record(d) # None
        /\ Invite(d) # None
        /\ Chat(d) # <<>>
        /\ "memo" \in DOMAIN Record(d)
        /\ "metadata" \in DOMAIN Record(d)

\* the blobs under the folder of deal d, with what they hold
BlobsOf(b, d) == [p \in {q \in DOMAIN b : q[1] = d} |-> b[p]]

\* C30: operations on one deal do not affect another: a step of
\* regenerate_memo, record_founder_chat, create_founder_invite or delete_deal
\* on deal id A leaves the record and every blob of each other deal id B
\* unchanged. (Stored ids are all 6 hex digits, so none is a proper prefix
\* of another.)
C30_OtherDealsUntouched ==
    [][\A a \in DealIds, b \in DealIds, c \in Callers :
          /\ a # b
          /\ calls[c].op \in {"regenerate_memo", "record_founder_chat",
                              "create_founder_invite", "delete_deal"}
          /\ calls[c].deal_id = a
          /\ calls'[c] # calls[c]
          => /\ Record(b)' = Record(b)
             /\ BlobsOf(bucket', b) = BlobsOf(bucket, b)]_vars

\* deal A has been deleted, with its blobs, while deal B is stored with its
\* memo blob
C30_Witness ==
    \E a \in DealIds, b \in DealIds :
        /\ a # b
        /\ response = Respond("delete_deal", a, 200, "none")
        /\ Record(a) = None
        /\ BlobsOf(bucket, a) = <<>>
        /\ Record(b) # None
        /\ blob_exists(bucket, b, <<"memo.docx">>)

\* this step is a whole call of the read operation op
Read(op) == requests' # requests /\ calls' = calls /\ response'.op = op

\* C31: get_deal and list_deals are pure reads, changing neither the record
\* store nor the bucket, and list_deals returns exactly one record for each
\* stored deal: every record of the list is the record of a deal id, carries
\* that id, and is what get_deal returns for it, and every deal get_deal
\* finds is in the list once.
C31_ReadsArePureAndListMatchesGet ==
    [][/\ Read("get_deal") \/ Read("list_deals") =>
             repository' = repository /\ bucket' = bucket
       /\ Read("list_deals") /\ response'.status = 200 =>
             LET deals == response'.deals
             IN  /\ \A i \in DOMAIN deals :
                       \E d \in DealIds :
                           /\ ~not_found(repository, d)
                           /\ deals[i] = RepoGet(repository, d)
                           /\ "metadata" \in DOMAIN deals[i]
                           /\ deals[i].metadata.deal_id = d
                 /\ \A d \in DealIds :
                       ~not_found(repository, d) =>
                           Cardinality({i \in DOMAIN deals :
                                           deals[i] = RepoGet(repository, d)}) = 1
      ]_vars

====
